---- MODULE Spec2Model ----
(***************************************************************************)
(* Model of exception_memory::__cxx::ExceptionMemoryPool                   *)
(* (src/include/exception_memory_pool.hpp): a fixed array of slots, each   *)
(* an atomic_flag plus a buffer pointer, probed linearly from a            *)
(* thread-specific start index.  Every atomic operation on a flag is one   *)
(* step of the calling thread, so calls of different threads interleave    *)
(* between any two flag operations.                                        *)
(***************************************************************************)
EXTENDS Integers, Naturals, Sequences, FiniteSets, TLC

(* ---------------------------------------------------------------------- *)
(* Configuration and bounds                                                *)
(* ---------------------------------------------------------------------- *)

\* EXCEPTION_MEMORY__CXX_POOL_SIZE, configured small.
pool_size == 4

\* EXCEPTION_MEMORY__CXX_MAX_EXCEPTION_SIZE, configured small.
max_exception_size == 16

\* Number of threads using the pool.
NThreads == 2

\* Address of the first buffer returned by aligned_alloc.
HeapBase == 4096

\* The null pointer: no buffer, and the value of a call that returns none.
nullptr == 0

Threads == 1..NThreads
Slots == 0..(pool_size - 1)

VARIABLES
  m_pool,   \* m_pool[i].first : the atomic_flag of slot i
  tls_t,    \* the thread_local t of start_idx(), one per thread
  pc,       \* the function each thread is executing
  idx,      \* the local idx of allocate/deallocate, the loop position of used_segments
  arg,      \* thrown_size or thrown_object of the thread's current call
  counter,  \* the local counter of used_segments
  last,     \* the call that the step leading to this state completed, with its outcome
  held,     \* held[i]: acquire results for slot i that are not yet released
  client,   \* a caller running a fixed sequence of calls
  probes,   \* flags the thread's current allocate has examined so far
  caller,   \* the function that called the thread's current allocate, and its argument
  origin    \* origin[i]: who acquired the outstanding result for slot i, through which function

vars == <<m_pool, tls_t, pc, idx, arg, counter, last, held, client, probes, caller, origin>>

(* ---------------------------------------------------------------------- *)
(* Pure helpers                                                            *)
(* ---------------------------------------------------------------------- *)

\* m_pool[i].second: the buffer of slot i, set once by the constructor.
m_pool_second(i) == HeapBase + i * max_exception_size

PoolAddrs == { m_pool_second(i) : i \in Slots }

\* Addresses that are no slot's buffer: null, and one inside a buffer.
ForeignAddrs == { nullptr, m_pool_second(0) + 1 }

SlotOf(p) == CHOOSE i \in Slots : m_pool_second(i) = p

\* Requested sizes: exactly the maximum, one more than the maximum.
Sizes == { max_exception_size, max_exception_size + 1 }

\* Variant: the ring is walked downwards.
inc_idx_down(i) == IF i = 0 THEN pool_size - 1 ELSE i - 1

inc_idx(i) == IF i + 1 = pool_size THEN 0 ELSE i + 1

start_idx(th) == tls_t[th]

\* Variant: reports the previous value but leaves the flag as it was.
test_and_set_no_set(pool, i) == [ orig |-> pool[i], pool |-> pool ]

\* Variant: sets the flag but always reports that it was clear.
test_and_set_blind(pool, i) == [ orig |-> FALSE, pool |-> [pool EXCEPT ![i] = TRUE] ]

\* Variant: an exchange that writes the opposite of what it read.
test_and_set_toggle(pool, i) == [ orig |-> pool[i], pool |-> [pool EXCEPT ![i] = ~pool[i]] ]

\* std::atomic_flag::test_and_set: returns the previous value and sets the flag.
test_and_set(pool, i) == [ orig |-> pool[i], pool |-> [pool EXCEPT ![i] = TRUE] ]

\* Variant: the flag stays as it was.
clear_noop(pool, i) == pool

\* Variant: every flag of the pool is cleared.
clear_all(pool, i) == [j \in DOMAIN pool |-> FALSE]

\* std::atomic_flag::clear
clear(pool, i) == [pool EXCEPT ![i] = FALSE]

\* The three hooks call std::terminate(): the call that invoked the hook
\* never returns, its thread stays inside the hook (pc "hook").  The other
\* threads go on until the process is gone (Abort).
NoHook == "none"
TooLarge == "exception_too_large"
Exhausted == "exception_memory_pool_exhausted"
Leak == "exception_memory_pool_leak"

\* A call that came to its end: who called what with which argument, the
\* hook it invoked (if any), the value it returned (if it returned) and the
\* number n of slots it examined.
Outcome(th, op, a, hook, val, n) ==
  [ th |-> th, op |-> op, arg |-> a, hook |-> hook, val |-> val, n |-> n ]

\* The step leading to this state completed no call.
NoOutcome == Outcome(0, "none", 0, NoHook, nullptr, 0)

\* allocate called directly, not through one of the cxa_ functions.
DirectCall == [ fn |-> "allocate", size |-> 0 ]

\* No acquire result is outstanding for the slot.
NoOrigin == [ th |-> 0, op |-> "none" ]

NoClient == [ th |-> 0, script |-> "none", size |-> 0, pre |-> <<>>, results |-> <<>> ]

RECURSIVE SumOver(_, _)
SumOver(f, S) == IF S = {} THEN 0
                 ELSE LET x == CHOOSE y \in S : TRUE IN f[x] + SumOver(f, S \ {x})

\* Number of outstanding acquire results for slot i.
Holders(i) == held[i]

\* Number of outstanding acquire results: successful acquires minus releases
\* given an outstanding result.
HeldTotal == SumOver(held, Slots)

AllIdle == \A th \in Threads : pc[th] = "idle"

(* ---------------------------------------------------------------------- *)
(* Initial state: after the constructor                                    *)
(* ---------------------------------------------------------------------- *)

\* Every flag is clear.  Each thread's start index is hash(thread id) modulo
\* pool_size: any value, the same for two threads or not.

Init ==
  /\ m_pool = [i \in Slots |-> FALSE]
  /\ tls_t \in [Threads -> Slots]
  /\ pc = [th \in Threads |-> "idle"]
  /\ idx = [th \in Threads |-> 0]
  /\ arg = [th \in Threads |-> 0]
  /\ counter = [th \in Threads |-> 0]
  /\ last = NoOutcome
  /\ held = [i \in Slots |-> 0]
  /\ client = NoClient
  /\ probes = [th \in Threads |-> 0]
  /\ caller = [th \in Threads |-> DirectCall]
  /\ origin = [i \in Slots |-> NoOrigin]

(* ---------------------------------------------------------------------- *)
(* allocate                                                                *)
(* ---------------------------------------------------------------------- *)

\* sizeof(__cxxabiv1::__cxa_refcounted_exception), the header that
\* cxa_allocate_exception puts in front of the exception object.
refcounted_exception_size == 4

\* sizeof(__cxxabiv1::__cxa_dependent_exception)
dependent_exception_size == 3

\* What the function that called allocate returns to its own caller:
\* allocate's result, moved past the header by cxa_allocate_exception.
Ret(v, th, thrown_size, val, n) ==
  IF v.fn = "cxa_allocate_exception"
    THEN Outcome(th, v.fn, v.size, NoHook, val + refcounted_exception_size, n)
    ELSE IF v.fn = "cxa_allocate_dependent_exception"
           THEN Outcome(th, v.fn, 0, NoHook, val, n)
           ELSE Outcome(th, "allocate", thrown_size, NoHook, val, n)

\* The call, made through v.fn, that invoked a hook and does not return.
Died(v, th, thrown_size, hook, n) ==
  IF v.fn = "cxa_allocate_exception"
    THEN Outcome(th, v.fn, v.size, hook, nullptr, n)
    ELSE IF v.fn = "cxa_allocate_dependent_exception"
           THEN Outcome(th, v.fn, 0, hook, nullptr, n)
           ELSE Outcome(th, "allocate", thrown_size, hook, nullptr, n)

\* Entry of allocate, called by v.fn: the size check, then
\* idx = inc_idx(start_idx()) and the first loop test.
allocate_entry(th, thrown_size, v) ==
  /\ pc[th] = "idle"
  /\ IF thrown_size > max_exception_size
       THEN /\ last' = Died(v, th, thrown_size, TooLarge, 0)
            /\ pc' = [pc EXCEPT ![th] = "hook"]
            /\ UNCHANGED <<idx, arg, caller>>
       ELSE IF inc_idx(start_idx(th)) = start_idx(th)
         THEN /\ last' = Died(v, th, thrown_size, Exhausted, 0)
              /\ pc' = [pc EXCEPT ![th] = "hook"]
              /\ UNCHANGED <<idx, arg, caller>>
         ELSE /\ pc' = [pc EXCEPT ![th] = "allocate"]
              /\ idx' = [idx EXCEPT ![th] = inc_idx(start_idx(th))]
              /\ arg' = [arg EXCEPT ![th] = thrown_size]
              /\ caller' = [caller EXCEPT ![th] = v]
              /\ last' = NoOutcome
  /\ UNCHANGED <<m_pool, tls_t, counter, held, probes>>

\* Variant: allocate without the size check.
CallAllocate_unchecked(th, thrown_size) ==
  /\ pc[th] = "idle"
  /\ pc' = [pc EXCEPT ![th] = "allocate"]
  /\ idx' = [idx EXCEPT ![th] = inc_idx(start_idx(th))]
  /\ arg' = [arg EXCEPT ![th] = thrown_size]
  /\ last' = NoOutcome
  /\ UNCHANGED <<m_pool, tls_t, counter, held, probes, caller>>

\* allocate called directly.
CallAllocate(th, thrown_size) == allocate_entry(th, thrown_size, DirectCall)

\* Variant: the loop has no end test, it goes round the ring for ever.
AllocateStep_no_stop(th) ==
  /\ pc[th] = "allocate"
  /\ LET r == test_and_set(m_pool, idx[th]) IN
       /\ m_pool' = r.pool
       /\ IF ~r.orig
            THEN /\ last' = Ret(caller[th], th, arg[th],
                                m_pool_second(idx[th]), probes[th] + 1)
                 /\ held' = [held EXCEPT ![idx[th]] = @ + 1]
                 /\ pc' = [pc EXCEPT ![th] = "idle"]
                 /\ idx' = [idx EXCEPT ![th] = 0]
                 /\ arg' = [arg EXCEPT ![th] = 0]
                 /\ probes' = [probes EXCEPT ![th] = 0]
                 /\ caller' = [caller EXCEPT ![th] = DirectCall]
            ELSE /\ idx' = [idx EXCEPT ![th] = inc_idx(idx[th])]
                 /\ probes' = [probes EXCEPT ![th] = @ + 1]
                 /\ last' = NoOutcome
                 /\ UNCHANGED <<held, pc, arg, caller>>
  /\ UNCHANGED <<tls_t, counter>>

\* Variant: the loop goes once round the whole ring, the slot at the
\* thread's start index included.
AllocateStep_full_ring(th) ==
  /\ pc[th] = "allocate"
  /\ LET r == test_and_set(m_pool, idx[th]) IN
       /\ m_pool' = r.pool
       /\ IF ~r.orig
            THEN /\ last' = Ret(caller[th], th, arg[th],
                                m_pool_second(idx[th]), probes[th] + 1)
                 /\ held' = [held EXCEPT ![idx[th]] = @ + 1]
                 /\ pc' = [pc EXCEPT ![th] = "idle"]
                 /\ idx' = [idx EXCEPT ![th] = 0]
                 /\ arg' = [arg EXCEPT ![th] = 0]
                 /\ probes' = [probes EXCEPT ![th] = 0]
                 /\ caller' = [caller EXCEPT ![th] = DirectCall]
            ELSE IF idx[th] = start_idx(th)
              THEN /\ last' = Died(caller[th], th, arg[th], Exhausted, probes[th] + 1)
                   /\ pc' = [pc EXCEPT ![th] = "hook"]
                   /\ idx' = [idx EXCEPT ![th] = 0]
                   /\ arg' = [arg EXCEPT ![th] = 0]
                   /\ probes' = [probes EXCEPT ![th] = 0]
                   /\ caller' = [caller EXCEPT ![th] = DirectCall]
                   /\ UNCHANGED held
              ELSE /\ idx' = [idx EXCEPT ![th] = inc_idx(idx[th])]
                   /\ probes' = [probes EXCEPT ![th] = @ + 1]
                   /\ last' = NoOutcome
                   /\ UNCHANGED <<held, pc, arg, caller>>
  /\ UNCHANGED <<tls_t, counter>>

\* One turn of the while loop of allocate: one test_and_set; on a flag that
\* was set, idx = inc_idx(idx) and the loop test, which ends the loop in
\* exception_memory_pool_exhausted when idx is back at start_idx().
AllocateStep(th) ==
  /\ pc[th] = "allocate"
  /\ LET r == test_and_set(m_pool, idx[th]) IN
       /\ m_pool' = r.pool
       /\ IF ~r.orig
            THEN /\ last' = Ret(caller[th], th, arg[th],
                                m_pool_second(idx[th]), probes[th] + 1)
                 /\ held' = [held EXCEPT ![idx[th]] = @ + 1]
                 /\ pc' = [pc EXCEPT ![th] = "idle"]
                 /\ idx' = [idx EXCEPT ![th] = 0]
                 /\ arg' = [arg EXCEPT ![th] = 0]
                 /\ probes' = [probes EXCEPT ![th] = 0]
                 /\ caller' = [caller EXCEPT ![th] = DirectCall]
            ELSE IF inc_idx(idx[th]) = start_idx(th)
              THEN /\ last' = Died(caller[th], th, arg[th], Exhausted, probes[th] + 1)
                   /\ pc' = [pc EXCEPT ![th] = "hook"]
                   /\ idx' = [idx EXCEPT ![th] = 0]
                   /\ arg' = [arg EXCEPT ![th] = 0]
                   /\ probes' = [probes EXCEPT ![th] = 0]
                   /\ caller' = [caller EXCEPT ![th] = DirectCall]
                   /\ UNCHANGED held
              ELSE /\ idx' = [idx EXCEPT ![th] = inc_idx(idx[th])]
                   /\ probes' = [probes EXCEPT ![th] = @ + 1]
                   /\ last' = NoOutcome
                   /\ UNCHANGED <<held, pc, arg, caller>>
  /\ UNCHANGED <<tls_t, counter>>

(* ---------------------------------------------------------------------- *)
(* deallocate                                                              *)
(* ---------------------------------------------------------------------- *)

\* Variant: a slot matches when thrown_object lies anywhere in its buffer.
deallocate_scan_range(s, i, thrown_object, n) ==
  LET hit == { j \in Slots \ {s} : /\ m_pool_second(j) <= thrown_object
                                    /\ thrown_object < m_pool_second(j) + max_exception_size }
  IN IF hit # {} THEN [ found |-> TRUE, idx |-> CHOOSE j \in hit : TRUE, n |-> n + 1 ]
                 ELSE [ found |-> FALSE, idx |-> s, n |-> n ]

\* Variant: every slot is compared, the one at the start index too.
deallocate_scan_all(s, i, thrown_object, n) ==
  IF thrown_object \in PoolAddrs
    THEN [ found |-> TRUE, idx |-> SlotOf(thrown_object), n |-> n + 1 ]
    ELSE [ found |-> FALSE, idx |-> s, n |-> n ]

\* The while loop of deallocate, from position i, for a thread whose start
\* index is s: the slot whose buffer is thrown_object, if the loop reaches it
\* before it comes back to s.  n counts the slots compared.
RECURSIVE deallocate_scan(_, _, _, _)
deallocate_scan(s, i, thrown_object, n) ==
  IF i # s
    THEN IF m_pool_second(i) = thrown_object
           THEN [ found |-> TRUE, idx |-> i, n |-> n + 1 ]
           ELSE deallocate_scan(s, inc_idx(i), thrown_object, n + 1)
    ELSE [ found |-> FALSE, idx |-> i, n |-> n ]

\* deallocate, called by function op with argument a.  The loop only
\* compares the immutable buffer pointers, so the whole call is one step: the
\* clear of the flag and the return, or the leak hook, which does not
\* return.  A buffer that has been released is no longer an outstanding
\* acquire result.
deallocate_as(th, thrown_object, op, a) ==
  /\ pc[th] = "idle"
  /\ LET r == deallocate_scan(start_idx(th), inc_idx(start_idx(th)), thrown_object, 0) IN
       IF r.found
         THEN /\ m_pool' = clear(m_pool, r.idx)
              /\ last' = Outcome(th, op, a, NoHook, nullptr, r.n)
              /\ held' = [held EXCEPT ![r.idx] = IF @ > 0 THEN @ - 1 ELSE @]
              /\ UNCHANGED pc
         ELSE /\ last' = Outcome(th, op, a, Leak, nullptr, r.n)
              /\ pc' = [pc EXCEPT ![th] = "hook"]
              /\ UNCHANGED <<m_pool, held>>
  /\ UNCHANGED <<tls_t, idx, arg, counter, probes, caller>>

\* deallocate called directly.
Deallocate(th, thrown_object) ==
  deallocate_as(th, thrown_object, "deallocate", thrown_object)

(* ---------------------------------------------------------------------- *)
(* used_segments                                                           *)
(* ---------------------------------------------------------------------- *)

\* Entry of used_segments: counter = 0, the range-for starts at element 0.
CallUsedSegments(th) ==
  /\ pc[th] = "idle"
  /\ pc' = [pc EXCEPT ![th] = "used_segments"]
  /\ idx' = [idx EXCEPT ![th] = 0]
  /\ counter' = [counter EXCEPT ![th] = 0]
  /\ last' = NoOutcome
  /\ UNCHANGED <<m_pool, tls_t, arg, held, probes, caller>>

\* Variant: the flag is cleared whether it was found set or clear.
UsedSegmentsStep_clear_always(th) ==
  /\ pc[th] = "used_segments"
  /\ IF idx[th] < pool_size
       THEN LET r == test_and_set(m_pool, idx[th]) IN
            /\ m_pool' = r.pool
            /\ last' = NoOutcome
            /\ counter' = [counter EXCEPT ![th] = IF r.orig THEN @ + 1 ELSE @]
            /\ pc' = [pc EXCEPT ![th] = "used_segments_clear"]
            /\ UNCHANGED idx
       ELSE /\ last' = Outcome(th, "used_segments", 0, NoHook, counter[th], pool_size)
            /\ pc' = [pc EXCEPT ![th] = "idle"]
            /\ idx' = [idx EXCEPT ![th] = 0]
            /\ counter' = [counter EXCEPT ![th] = 0]
            /\ UNCHANGED m_pool
  /\ UNCHANGED <<tls_t, arg, held, probes, caller>>

\* One turn of the range-for of used_segments up to its test_and_set, or the return.
UsedSegmentsStep(th) ==
  /\ pc[th] = "used_segments"
  /\ IF idx[th] < pool_size
       THEN LET r == test_and_set(m_pool, idx[th]) IN
            /\ m_pool' = r.pool
            /\ last' = NoOutcome
            /\ IF r.orig
                 THEN /\ counter' = [counter EXCEPT ![th] = @ + 1]
                      /\ idx' = [idx EXCEPT ![th] = @ + 1]
                      /\ UNCHANGED pc
                 ELSE /\ pc' = [pc EXCEPT ![th] = "used_segments_clear"]
                      /\ UNCHANGED <<counter, idx>>
       ELSE /\ last' = Outcome(th, "used_segments", 0, NoHook, counter[th], pool_size)
            /\ pc' = [pc EXCEPT ![th] = "idle"]
            /\ idx' = [idx EXCEPT ![th] = 0]
            /\ counter' = [counter EXCEPT ![th] = 0]
            /\ UNCHANGED m_pool
  /\ UNCHANGED <<tls_t, arg, held, probes, caller>>

\* Variant: the flag that was found clear is left set.
UsedSegmentsClear_skip(th) ==
  /\ pc[th] = "used_segments_clear"
  /\ pc' = [pc EXCEPT ![th] = "used_segments"]
  /\ idx' = [idx EXCEPT ![th] = @ + 1]
  /\ last' = NoOutcome
  /\ UNCHANGED <<m_pool, tls_t, arg, counter, held, probes, caller>>

\* The else branch of used_segments: the flag it found clear is cleared again.
UsedSegmentsClear(th) ==
  /\ pc[th] = "used_segments_clear"
  /\ m_pool' = clear(m_pool, idx[th])
  /\ pc' = [pc EXCEPT ![th] = "used_segments"]
  /\ idx' = [idx EXCEPT ![th] = @ + 1]
  /\ last' = NoOutcome
  /\ UNCHANGED <<tls_t, arg, counter, held, probes, caller>>

(* ---------------------------------------------------------------------- *)
(* The end of the process                                                  *)
(* ---------------------------------------------------------------------- *)

\* std::terminate(), called by a hook, ends the process (abort, SIGABRT):
\* every thread stops where it is and its locals are gone.  Between the call
\* of the hook and this step the other threads take any number of steps.
Abort ==
  /\ \E th \in Threads : pc[th] = "hook"
  /\ pc' = [th \in Threads |-> "aborted"]
  /\ idx' = [th \in Threads |-> 0]
  /\ arg' = [th \in Threads |-> 0]
  /\ counter' = [th \in Threads |-> 0]
  /\ probes' = [th \in Threads |-> 0]
  /\ caller' = [th \in Threads |-> DirectCall]
  /\ last' = NoOutcome
  /\ UNCHANGED <<m_pool, tls_t, held, client, origin>>

(* ---------------------------------------------------------------------- *)
(* Threads calling the pool concurrently                                   *)
(* ---------------------------------------------------------------------- *)

\* allocate and deallocate run concurrently on all threads.  A release is
\* given an outstanding acquire result or an address outside the pool.
Next ==
  \/ \E th \in Threads, s \in Sizes : CallAllocate(th, s) /\ UNCHANGED <<client, origin>>
  \/ \E th \in Threads : AllocateStep(th) /\ UNCHANGED <<client, origin>>
  \/ \E th \in Threads, i \in Slots :
       /\ held[i] > 0
       /\ Deallocate(th, m_pool_second(i))
       /\ UNCHANGED <<client, origin>>
  \/ \E th \in Threads, p \in ForeignAddrs : Deallocate(th, p) /\ UNCHANGED <<client, origin>>
  \/ Abort

Spec == Init /\ [][Next]_vars

(* ---------------------------------------------------------------------- *)
(* Calls one after the other                                               *)
(* ---------------------------------------------------------------------- *)

\* A client is a thread that makes a fixed sequence of calls while no other
\* thread calls the pool.  "roundtrip": allocate(size), deallocate(the
\* result), allocate(size).  "scenario": on an empty pool, allocate(8) five
\* times, deallocate(the second result), allocate(8).  "count": used_segments.
\* "double": allocate(size), deallocate(the result), deallocate(the result).
ScenarioSize == 8

ScriptLen(script) ==
  IF script \in {"roundtrip", "double"} THEN 3 ELSE IF script = "count" THEN 1 ELSE 7

\* The k-th call of the client's script.
ScriptCall(c, k) ==
  IF c.script = "roundtrip"
    THEN IF k = 2 THEN [ op |-> "deallocate", arg |-> c.results[1].val ]
                  ELSE [ op |-> "allocate", arg |-> c.size ]
    ELSE IF c.script = "count" THEN [ op |-> "used_segments", arg |-> 0 ]
    ELSE IF c.script = "double"
      THEN IF k = 1 THEN [ op |-> "allocate", arg |-> c.size ]
                    ELSE [ op |-> "deallocate", arg |-> c.results[1].val ]
    ELSE IF k = 6 THEN [ op |-> "deallocate", arg |-> c.results[2].val ]
                  ELSE [ op |-> "allocate", arg |-> c.size ]

ClientActive == client.script # "none"

\* The script is over: all its calls are made, or the first allocate of a
\* round trip did not return a slot.
ClientDone ==
  /\ ClientActive
  /\ \/ Len(client.results) = ScriptLen(client.script)
     \/ /\ client.script = "roundtrip"
        /\ Len(client.results) >= 1
        /\ client.results[1].hook # NoHook

\* The client notes the outcome of each call it completes.
ClientStep ==
  /\ client' = IF ClientActive /\ last'.op # "none"
                 THEN [client EXCEPT !.results = Append(@, last')]
                 ELSE client
  /\ UNCHANGED origin

StartClient(th, script, size) ==
  /\ AllIdle
  /\ ~ClientActive
  /\ script = "scenario" => (size = ScenarioSize /\ \A i \in Slots : ~m_pool[i])
  /\ client' = [ th |-> th, script |-> script, size |-> size,
                 pre |-> m_pool, results |-> <<>> ]
  /\ last' = NoOutcome
  /\ UNCHANGED <<m_pool, tls_t, pc, idx, arg, counter, held, probes, caller, origin>>

ClientCall ==
  /\ AllIdle
  /\ ClientActive
  /\ ~ClientDone
  /\ LET c == ScriptCall(client, Len(client.results) + 1) IN
       \/ c.op = "allocate" /\ CallAllocate(client.th, c.arg)
       \/ c.op = "deallocate" /\ Deallocate(client.th, c.arg)
       \/ c.op = "used_segments" /\ CallUsedSegments(client.th)
  /\ ClientStep

EndClient ==
  /\ AllIdle
  /\ ClientDone
  /\ client' = NoClient
  /\ last' = NoOutcome
  /\ UNCHANGED <<m_pool, tls_t, pc, idx, arg, counter, held, probes, caller, origin>>

\* A call starts only while no other call runs.  used_segments, which is not
\* thread safe, is called here.
NextSeq ==
  \/ \E th \in Threads, s \in Sizes :
       AllIdle /\ ~ClientActive /\ CallAllocate(th, s) /\ ClientStep
  \/ \E th \in Threads : AllocateStep(th) /\ ClientStep
  \/ \E th \in Threads, i \in Slots :
       /\ AllIdle /\ ~ClientActive
       /\ held[i] > 0
       /\ Deallocate(th, m_pool_second(i))
       /\ ClientStep
  \/ \E th \in Threads, p \in ForeignAddrs :
       AllIdle /\ ~ClientActive /\ Deallocate(th, p) /\ ClientStep
  \/ \E th \in Threads :
       AllIdle /\ ~ClientActive /\ CallUsedSegments(th) /\ ClientStep
  \/ \E th \in Threads : UsedSegmentsStep(th) /\ ClientStep
  \/ \E th \in Threads : UsedSegmentsClear(th) /\ ClientStep
  \/ \E th \in Threads, size \in {ScenarioSize, max_exception_size} :
       \/ StartClient(th, "roundtrip", size)
       \/ StartClient(th, "scenario", size)
  \/ \E th \in Threads : StartClient(th, "count", 0)
  \/ ClientCall
  \/ EndClient
  \/ Abort

SpecSeq == Init /\ [][NextSeq]_vars

\* As NextSeq, and a release may also be given the buffer of a slot that is
\* free: an address never acquired, or released before.
NextFree ==
  \/ NextSeq
  \/ \E th \in Threads, i \in Slots :
       /\ AllIdle /\ ~ClientActive
       /\ ~m_pool[i] /\ Holders(i) = 0
       /\ Deallocate(th, m_pool_second(i))
       /\ ClientStep
  \/ \E th \in Threads : StartClient(th, "double", max_exception_size)

SpecFree == Init /\ [][NextFree]_vars

(* ---------------------------------------------------------------------- *)
(* The functions that replace __cxa_allocate_exception and friends          *)
(* ---------------------------------------------------------------------- *)

\* std::size_t is an unsigned integer type: its arithmetic is modulo 2^64,
\* scaled here to 2^8.
size_t_modulus == 256

\* Sizes of thrown objects: the largest that fits behind the header, one
\* byte more, a whole slot, and the two ends of the range of sizes whose sum
\* with the header is beyond the largest size_t.
CxaSizes ==
  { max_exception_size - refcounted_exception_size,
    max_exception_size - refcounted_exception_size + 1,
    max_exception_size,
    size_t_modulus - refcounted_exception_size,
    size_t_modulus - 1 }

\* cxa_allocate_exception: thrown_size += sizeof(header), in size_t
\* arithmetic; allocate.  The pointer behind the header is returned when
\* allocate returns (Ret).
cxa_allocate_exception(th, thrown_size) ==
  allocate_entry(th, (thrown_size + refcounted_exception_size) % size_t_modulus,
                 [ fn |-> "cxa_allocate_exception", size |-> thrown_size ])

\* cxa_free_exception: deallocate(vptr - sizeof(header)).
cxa_free_exception(th, vptr) ==
  deallocate_as(th, vptr - refcounted_exception_size, "cxa_free_exception", vptr)

\* cxa_allocate_dependent_exception: allocate(sizeof(__cxa_dependent_exception)).
cxa_allocate_dependent_exception(th) ==
  allocate_entry(th, dependent_exception_size,
                 [ fn |-> "cxa_allocate_dependent_exception", size |-> 0 ])

\* cxa_free_dependent_exception: deallocate(vptr).
cxa_free_dependent_exception(th, vptr) ==
  deallocate_as(th, vptr, "cxa_free_dependent_exception", vptr)

\* Remembers, for each slot, the call whose result for it is outstanding:
\* the function, and the calling thread if who is TRUE.
Track(who) ==
  origin' = [i \in Slots |->
               IF held'[i] > held[i]
                 THEN [ th |-> IF who THEN last'.th ELSE 0, op |-> last'.op ]
                 ELSE IF held'[i] < held[i] THEN NoOrigin ELSE origin[i]]

TrackOrigin == Track(TRUE)

TrackCall == Track(FALSE)

\* Every thread throws and destroys exceptions through the cxa_ functions,
\* concurrently with the others; any thread may free an exception that is
\* alive, with the address the matching allocation function returned.
NextCxa ==
  \/ \E th \in Threads, size \in CxaSizes :
       cxa_allocate_exception(th, size) /\ TrackCall /\ UNCHANGED client
  \/ \E th \in Threads :
       cxa_allocate_dependent_exception(th) /\ TrackCall /\ UNCHANGED client
  \/ \E th \in Threads : AllocateStep(th) /\ TrackCall /\ UNCHANGED client
  \/ \E th \in Threads, i \in Slots :
       /\ held[i] > 0 /\ origin[i].op = "cxa_allocate_exception"
       /\ cxa_free_exception(th, m_pool_second(i) + refcounted_exception_size)
       /\ TrackCall /\ UNCHANGED client
  \/ \E th \in Threads, i \in Slots :
       /\ held[i] > 0 /\ origin[i].op = "cxa_allocate_dependent_exception"
       /\ cxa_free_dependent_exception(th, m_pool_second(i))
       /\ TrackCall /\ UNCHANGED client
  \/ Abort

SpecCxa == Init /\ [][NextCxa]_vars

\* Threads allocate concurrently, and each thread releases only buffers
\* that it was returned itself.
NextOwn ==
  \/ \E th \in Threads :
       CallAllocate(th, max_exception_size) /\ TrackOrigin /\ UNCHANGED client
  \/ \E th \in Threads : AllocateStep(th) /\ TrackOrigin /\ UNCHANGED client
  \/ \E th \in Threads, i \in Slots :
       /\ held[i] > 0 /\ origin[i].th = th
       /\ Deallocate(th, m_pool_second(i))
       /\ TrackOrigin /\ UNCHANGED client
  \/ Abort

SpecOwn == Init /\ [][NextOwn]_vars

\* used_segments runs on any thread, concurrently with the allocate,
\* deallocate and used_segments calls of the other threads; a release is
\* given an outstanding acquire result.
NextCount ==
  \/ \E th \in Threads :
       CallAllocate(th, max_exception_size) /\ UNCHANGED <<client, origin>>
  \/ \E th \in Threads : AllocateStep(th) /\ UNCHANGED <<client, origin>>
  \/ \E th \in Threads, i \in Slots :
       /\ held[i] > 0
       /\ Deallocate(th, m_pool_second(i))
       /\ UNCHANGED <<client, origin>>
  \/ \E th \in Threads : CallUsedSegments(th) /\ UNCHANGED <<client, origin>>
  \/ \E th \in Threads : UsedSegmentsStep(th) /\ UNCHANGED <<client, origin>>
  \/ \E th \in Threads : UsedSegmentsClear(th) /\ UNCHANGED <<client, origin>>
  \/ Abort

SpecCount == Init /\ [][NextCount]_vars

(* ---------------------------------------------------------------------- *)
(* Properties                                                              *)
(* ---------------------------------------------------------------------- *)

Min(a, b) == IF a <= b THEN a ELSE b

\* C1: no slot is owned by two callers at once: the acquire results that are
\* outstanding at the same time are pairwise distinct addresses.
C1_MutualExclusion == \A i \in Slots : Holders(i) <= 1

\* Two threads raced for the same free slot: one has just been given it, the
\* other is about to test_and_set its flag.
C1_Witness ==
  \E th \in Threads, i \in Slots :
    /\ last.op = "allocate" /\ last.hook = NoHook /\ last.val = m_pool_second(i)
    /\ th # last.th /\ pc[th] = "allocate" /\ idx[th] = i
    /\ held[i] = 1

\* C2: a release of an outstanding acquire result, by any thread, clears the
\* flag of the slot whose buffer it is and does not invoke the leak hook.
C2_ReleaseOutstanding ==
  (last.op = "deallocate" /\ last.arg \in PoolAddrs)
    => (last.hook = NoHook /\ ~m_pool[SlotOf(last.arg)])

\* C3: never more than pool_size slots are handed out, and an allocate that
\* completes while pool_size acquire results are outstanding invokes the
\* exhaustion hook and takes no slot.
C3_CapacityBound ==
  /\ [](HeldTotal <= pool_size)
  /\ [][ (HeldTotal = pool_size /\ last'.op = "allocate"
            /\ last'.arg <= max_exception_size)
         => (last'.hook = Exhausted /\ m_pool' = m_pool /\ held' = held) ]_vars

\* Every slot is handed out and the next allocate has ended in the exhaustion hook.
C3_Witness ==
  /\ HeldTotal = pool_size
  /\ last.op = "allocate" /\ last.hook = Exhausted

\* C4: when no other call runs, an allocate ends in the exhaustion hook only
\* if every slot of the pool is occupied.
C4_ExhaustedOnlyWhenFull ==
  (last.op = "allocate" /\ last.hook = Exhausted) => \A i \in Slots : m_pool[i]

\* C5: a release of an address that is no slot's buffer invokes the leak hook
\* and changes no flag.
C5_LeakDetection ==
  [][ (last'.op = "deallocate" /\ last'.arg \notin PoolAddrs)
      => (last'.hook = Leak /\ m_pool' = m_pool) ]_vars

\* A release of an address inside a slot's buffer has ended in the leak hook
\* while that slot and others are occupied.
C5_Witness ==
  /\ last.op = "deallocate" /\ last.hook = Leak
  /\ last.arg = m_pool_second(0) + 1
  /\ m_pool[0]
  /\ start_idx(last.th) # 0

\* C6 (as claimed): a release of the buffer of a slot that is free, so of no
\* outstanding acquire result, invokes the leak hook.
C6_FreeSlotReleaseLeaks ==
  [][ (last'.op = "deallocate" /\ last'.arg \in PoolAddrs
         /\ Holders(SlotOf(last'.arg)) = 0 /\ ~m_pool[SlotOf(last'.arg)])
      => last'.hook = Leak ]_vars

\* C6 (amended): a release of the buffer of a free slot changes no flag; it
\* invokes the leak hook exactly when the slot is the one at the releasing
\* thread's start index, and otherwise returns as a successful release does.
C6_FreeSlotReleaseUndetected ==
  [][ (last'.op = "deallocate" /\ last'.arg \in PoolAddrs
         /\ Holders(SlotOf(last'.arg)) = 0 /\ ~m_pool[SlotOf(last'.arg)])
      => /\ m_pool' = m_pool
         /\ (last'.hook = Leak) <=> (SlotOf(last'.arg) = start_idx(last'.th))
         /\ last'.hook \in {Leak, NoHook} ]_vars

\* A thread has released the same buffer a second time, without any hook,
\* while another slot is occupied.
C6_Witness ==
  /\ client.script = "double" /\ Len(client.results) = 3
  /\ client.results[3].op = "deallocate" /\ client.results[3].hook = NoHook
  /\ client.results[3].arg = client.results[1].val
  /\ \E i \in Slots : m_pool[i]

\* C7: an allocate of more than max_exception_size bytes, in every pool
\* state, invokes the oversized-request hook in its entry step, before any
\* flag is examined; no flag changes, and the call returns nothing but what
\* the hook returns: the hook does not return.
C7_OversizeRejection ==
  [][ (last'.op = "allocate" /\ last'.arg > max_exception_size)
      => /\ last'.hook = TooLarge /\ last'.n = 0
         /\ pc[last'.th] = "idle" /\ pc'[last'.th] = "hook"
         /\ m_pool' = m_pool /\ held' = held ]_vars

\* An oversized request was rejected while some slots are occupied and some free.
C7_Witness ==
  /\ last.op = "allocate" /\ last.arg = max_exception_size + 1 /\ last.hook = TooLarge
  /\ \E i, j \in Slots : m_pool[i] /\ ~m_pool[j]

\* C8: after any successful acquires and releases, each release given an
\* outstanding acquire result by any thread, used_segments can be called
\* and, called while no other call runs, returns the number of successful
\* acquires minus the number of releases, which is the number of results
\* still outstanding.
C8_OccupancyConservation ==
  /\ (last.op = "used_segments") => (last.val = HeldTotal)
  /\ (last.op = "deallocate" /\ last.arg \in PoolAddrs)
       => (last.hook = NoHook /\ Cardinality({ i \in Slots : m_pool[i] }) = HeldTotal)

\* C9: allocate(size), deallocate(result), allocate(size) by one thread with
\* no other call in between: the release succeeds and leaves every flag as it
\* was before the first allocate, and the second allocate returns the same
\* address as the first.
C9_RoundTrip ==
  (client.script = "roundtrip" /\ Len(client.results) >= 1
     /\ client.results[1].hook = NoHook)
    => LET r == client.results IN
       /\ r[1].val \in PoolAddrs
       /\ Len(r) >= 2 => r[2].hook = NoHook
       /\ (Len(r) = 2 /\ AllIdle) => m_pool = client.pre
       /\ Len(r) = 3 => (r[3].hook = NoHook /\ r[3].val = r[1].val)

\* A round trip is complete on a pool that had occupied slots before it.
C9_Witness ==
  /\ client.script = "roundtrip" /\ Len(client.results) = 3
  /\ client.results[1].hook = NoHook
  /\ \E i \in Slots : client.pre[i]
  /\ m_pool_second(inc_idx(start_idx(client.th))) # client.results[1].val

\* C10: with pool_size = 4 and one thread on an empty pool: four allocate(8)
\* return four distinct buffers, the fifth invokes the exhaustion hook, and
\* after the release of the second result allocate(8) returns that address.
C10_Scenario ==
  (pool_size = 4 /\ client.script = "scenario")
    => LET r == client.results IN
       /\ \A k \in 1..Min(Len(r), 4) : r[k].hook = NoHook /\ r[k].val \in PoolAddrs
       /\ \A j, k \in 1..Min(Len(r), 4) : j # k => r[j].val # r[k].val
       /\ Len(r) >= 5 => r[5].hook = Exhausted
       /\ Len(r) >= 6 => r[6].hook = NoHook
       /\ Len(r) >= 7 => (r[7].hook = NoHook /\ r[7].val = r[2].val)

\* C11: under every interleaving, an allocate in flight has examined at most
\* pool_size - 1 slots and its next step can be taken whatever the other
\* threads do (one of them may be inside a hook); each step it takes finishes
\* the call or examines one more slot; and every allocate or deallocate has come
\* to its end (a buffer returned, a flag cleared or a hook invoked) after
\* examining at most pool_size - 1 slots.
C11_BoundedProbes ==
  /\ [](\A th \in Threads :
          (pc[th] = "allocate")
            => (probes[th] <= pool_size - 1 /\ ENABLED AllocateStep(th)))
  /\ []((last.op \in {"allocate", "deallocate"})
          => (/\ last.n <= pool_size - 1
              /\ \/ last.hook # NoHook
                 \/ last.op = "allocate" /\ last.val \in PoolAddrs
                 \/ last.op = "deallocate" /\ ~m_pool[SlotOf(last.arg)]))
  /\ [][\A th \in Threads :
          (pc[th] = "allocate" /\ pc'[th] = "allocate" /\ idx'[th] # idx[th])
            => probes'[th] = probes[th] + 1]_vars

\* An allocate has given up after pool_size - 1 probes while another thread
\* was in the middle of its own allocate.
C11_Witness ==
  /\ last.op = "allocate" /\ last.hook = Exhausted /\ last.n = pool_size - 1
  /\ \E th \in Threads : pc[th] = "allocate" /\ probes[th] > 0

\* C12: cxa_allocate_exception(size) passes size + sizeof(header) to
\* allocate, so the too-large hook is invoked exactly when size +
\* sizeof(header) exceeds max_exception_size (a thrown object of a whole
\* slot's size is rejected, and so is every larger one), and on success the
\* address returned is the acquired slot's buffer plus sizeof(header).
C12_HeaderAccounting ==
  /\ \A th \in Threads :
       (pc[th] = "allocate" /\ caller[th].fn = "cxa_allocate_exception")
         => arg[th] = caller[th].size + refcounted_exception_size
  /\ (last.op = "cxa_allocate_exception")
       => /\ (last.hook = TooLarge)
               <=> (last.arg + refcounted_exception_size > max_exception_size)
          /\ (last.arg = max_exception_size) => (last.hook = TooLarge)
          /\ (last.hook = NoHook)
               => \E i \in Slots :
                    /\ last.val = m_pool_second(i) + refcounted_exception_size
                    /\ held[i] = 1 /\ m_pool[i]
                    /\ origin[i].op = last.op

\* C18: cxa_free_exception(a) passes a - sizeof(header) to deallocate, the
\* buffer that allocate returned for a, and cxa_free_dependent_exception(d)
\* passes d itself; so a free of an address an allocation function returned
\* releases the slot that allocation took.
C18_FreeReleasesAllocatedSlot ==
  /\ (last.op = "cxa_free_exception")
       => /\ last.arg - refcounted_exception_size \in PoolAddrs
          /\ last.hook = NoHook
          /\ ~m_pool[SlotOf(last.arg - refcounted_exception_size)]
  /\ (last.op = "cxa_free_dependent_exception")
       => /\ last.arg \in PoolAddrs
          /\ last.hook = NoHook
          /\ ~m_pool[SlotOf(last.arg)]

\* C13: an allocate that returns a buffer changes exactly one flag, that of
\* the returned slot, from clear to set; the slots it examined and passed
\* over were occupied and keep their flags; an allocate that ends in a hook
\* changes no flag.
C13_AllocateFrame ==
  [][/\ (last'.op = "allocate" /\ last'.hook = NoHook)
          => (/\ ~m_pool[SlotOf(last'.val)]
              /\ m_pool' = [m_pool EXCEPT ![SlotOf(last'.val)] = TRUE])
     /\ (last'.op = "allocate" /\ last'.hook # NoHook) => (m_pool' = m_pool)
     /\ \A th \in Threads :
          (pc[th] = "allocate" /\ pc'[th] = "allocate" /\ probes'[th] # probes[th])
            => (m_pool[idx[th]] /\ m_pool' = m_pool)]_vars

\* An allocate has passed over two occupied slots and taken the third it
\* examined, while another slot is free.
C13_Witness ==
  /\ last.op = "allocate" /\ last.hook = NoHook /\ last.n = 3
  /\ \E i \in Slots : ~m_pool[i]

\* C14 (as claimed): a deallocate that does not invoke the leak hook changes
\* exactly one flag, that of the slot whose buffer it was given, from set to
\* clear.
C14_DeallocateFrame ==
  [][(last'.op = "deallocate" /\ last'.hook = NoHook)
       => (/\ m_pool[SlotOf(last'.arg)]
           /\ m_pool' = [m_pool EXCEPT ![SlotOf(last'.arg)] = FALSE])]_vars

\* C14 (amended): a deallocate that does not invoke the leak hook leaves the
\* flag of the slot whose buffer it was given clear and every other flag as
\* it was.  Given an outstanding acquire result it finds that flag set, so
\* exactly one flag changes, from set to clear; given the buffer of a slot
\* that is free it changes no flag.
C14_DeallocateFrameAnyBuffer ==
  [][(last'.op = "deallocate" /\ last'.hook = NoHook)
       => LET s == SlotOf(last'.arg) IN
          /\ m_pool' = [m_pool EXCEPT ![s] = FALSE]
          /\ (Holders(s) > 0) => (m_pool[s] /\ m_pool' # m_pool)
          /\ (Holders(s) = 0) => (~m_pool[s] /\ m_pool' = m_pool)]_vars

\* A thread has released a buffer it was returned, and then the same buffer
\* once more, both times without a hook, while two other slots stay occupied.
C14_Witness ==
  /\ client.script = "double" /\ Len(client.results) = 3
  /\ client.results[2].op = "deallocate" /\ client.results[2].hook = NoHook
  /\ client.results[3].op = "deallocate" /\ client.results[3].hook = NoHook
  /\ client.results[3].arg = client.results[2].arg
  /\ ~m_pool[SlotOf(client.results[3].arg)]
  /\ \E i, j \in Slots : i # j /\ m_pool[i] /\ m_pool[j]

\* C15: an allocate of a thread with start index s examines the slots
\* (s+1) mod pool_size, (s+2) mod pool_size, ... in this order and never
\* slot s, at most pool_size - 1 of them; with no other call running it
\* returns the first free slot in this order, and it invokes the exhaustion
\* hook exactly when all pool_size - 1 slots other than s are occupied.
C15_ProbeOrder ==
  /\ [](\A th \in Threads :
          (pc[th] = "allocate")
            => (/\ probes[th] <= pool_size - 1
                /\ idx[th] = (start_idx(th) + 1 + probes[th]) % pool_size))
  /\ [][/\ \A th \in Threads :
            (pc[th] = "allocate" /\ (m_pool' # m_pool \/ probes'[th] = probes[th] + 1))
              => idx[th] # start_idx(th)
        /\ (last'.op = "allocate" /\ last'.hook # TooLarge)
             => LET s == start_idx(last'.th)
                    order == [k \in 1..(pool_size - 1) |-> (s + k) % pool_size]
                    free == { k \in 1..(pool_size - 1) : ~m_pool[order[k]] }
                IN /\ (last'.hook = Exhausted) <=> (free = {})
                   /\ (last'.hook = Exhausted) => (last'.n = pool_size - 1)
                   /\ (free # {})
                        => LET k == CHOOSE k \in free : \A j \in free : k <= j
                           IN /\ last'.val = m_pool_second(order[k])
                              /\ last'.n = k]_vars

\* An allocate has gone past the end of the pool and returned a slot below
\* the thread's start index, after passing over an occupied slot.
C15_Witness ==
  /\ last.op = "allocate" /\ last.hook = NoHook /\ last.n >= 2
  /\ SlotOf(last.val) < start_idx(last.th)

\* C16: some sequence of calls makes an allocate of a thread reach the slot
\* at the thread's own start index by wraparound and return it.  The probe
\* order puts that slot last, so the sequence has to leave it free and every
\* other slot occupied: the allocate that follows returns it.
C16_StartSlotReachable ==
  [][(/\ last'.op = "allocate" /\ last'.hook # TooLarge
      /\ ~m_pool[start_idx(last'.th)]
      /\ \A i \in Slots \ {start_idx(last'.th)} : m_pool[i])
       => (/\ last'.hook = NoHook
           /\ last'.val = m_pool_second(start_idx(last'.th)))]_vars

\* C19: under every interleaving, a thread that releases only buffers it
\* was returned itself never invokes the leak hook: the slot of a buffer a
\* thread holds is never the slot at that thread's start index, the only
\* slot its deallocate does not compare.
C19_OwnReleaseNeverLeaks ==
  /\ \A i \in Slots :
       (held[i] > 0)
         => (origin[i].th \in Threads /\ i # start_idx(origin[i].th))
  /\ (last.op = "deallocate")
       => (last.hook = NoHook /\ held[SlotOf(last.arg)] = 0)

\* A thread has released its own buffer while another thread, whose start
\* index is that very slot, is in the middle of an allocate.
C19_Witness ==
  /\ last.op = "deallocate" /\ last.hook = NoHook
  /\ \E th \in Threads :
       /\ th # last.th /\ start_idx(th) = SlotOf(last.arg)
       /\ pc[th] = "allocate"

\* C17: used_segments called while no allocate or deallocate is running
\* returns exactly the number of flags that are set, and when it returns
\* every flag has the value it had before the call.
C17_UsedSegmentsExact ==
  (client.script = "count")
    => LET th == client.th IN
       /\ (pc[th] \in {"used_segments", "used_segments_clear"})
            => counter[th] = Cardinality({ i \in Slots : i < idx[th] /\ client.pre[i] })
       /\ (Len(client.results) = 1)
            => /\ client.results[1].op = "used_segments"
               /\ client.results[1].val = Cardinality({ i \in Slots : client.pre[i] })
               /\ m_pool = client.pre

\* used_segments has returned on a pool with occupied and free slots.
C17_Witness ==
  /\ client.script = "count" /\ Len(client.results) = 1
  /\ client.results[1].val >= 2
  /\ \E i \in Slots : ~m_pool[i]

\* C20: used_segments running concurrently with allocate and deallocate
\* (each release given an outstanding pointer) never clears the flag of a
\* slot a caller owns and never lets two callers own the same slot.  The
\* only flags it changes are those of free slots, which it sets and then
\* clears again: in between, the slot looks occupied to an allocate.
C20_CountingIsHarmless ==
  /\ [](\A i \in Slots : held[i] <= 1 /\ (held[i] = 1 => m_pool[i]))
  /\ [](\A th \in Threads :
          (pc[th] = "used_segments_clear")
            => (m_pool[idx[th]] /\ held[idx[th]] = 0))
  /\ [][\A th \in Threads :
          (/\ pc[th] \in {"used_segments", "used_segments_clear"}
           /\ <<pc'[th], idx'[th]>> # <<pc[th], idx[th]>>)
            => /\ held' = held
               /\ \/ m_pool' = m_pool
                  \/ /\ pc[th] = "used_segments" /\ pc'[th] = "used_segments_clear"
                     /\ ~m_pool[idx[th]] /\ held[idx[th]] = 0
                     /\ m_pool' = [m_pool EXCEPT ![idx[th]] = TRUE]
                  \/ /\ pc[th] = "used_segments_clear"
                     /\ held[idx[th]] = 0
                     /\ m_pool' = [m_pool EXCEPT ![idx[th]] = FALSE]]_vars

\* An allocate has found every slot it examined set and invoked the
\* exhaustion hook, while one of those slots is free and only held by a
\* used_segments that is about to clear it again.
C20_Witness ==
  /\ last.op = "allocate" /\ last.hook = Exhausted
  /\ \E th \in Threads :
       /\ pc[th] = "used_segments_clear"
       /\ idx[th] # start_idx(last.th)

====
